---- MODULE Spec2Model ----
(***************************************************************************)
(* Model of pkg/k3/watch/watch.go: the file-state registry, its JSON       *)
(* snapshot, the start-up reconciliation, the per-index watcher workers,   *)
(* the reader goroutines and the snapshot ticker.                          *)
(***************************************************************************)
EXTENDS Integers, Sequences, FiniteSets, TLC

(* ------------------------------------------------------------------ *)
(* Bounds of the model                                                  *)
(* ------------------------------------------------------------------ *)
\* number of filesystem changes the environment makes after start-up
MaxEvents == 2
\* number of appends the environment makes when it only appends to log files
MaxWrites == 3
\* largest clock value time.Now().Unix() returns
MaxTime == 1
\* number of entries of the snapshot an earlier run left
MaxSnapshotEntries == 1
\* number of events the kernel queues for one watcher
MaxQueue == 1
\* how far below 0 and above DefaultSyncInterval the configured sync_interval
\* ranges
MaxInterval == 1

(* ------------------------------------------------------------------ *)
(* Program constants                                                    *)
(* ------------------------------------------------------------------ *)
\* capacity of processingSem. The source makes it 100 (watch.go:84); the
\* model scales it down so that the cap binds with MaxEvents readers.
MaxConcurrentReads == 2
DefaultMaxReadCount == 200
DefaultSyncInterval == 60
\* config.GlobalConfig.Watch.MaxReadCount
ConfigMaxReadCount == 2
\* byte length of one record of a log file ("line1\n")
RecLen == 6

(* ------------------------------------------------------------------ *)
(* Configuration and file system names                                  *)
(* ------------------------------------------------------------------ *)
\* the keys of `directory`, one watcher worker each
Indices == {"A", "B"}
\* directory : index name -> root directories
Directory == [i \in Indices |-> IF i = "A" THEN {"/a"} ELSE {"/b"}]
Roots == UNION {Directory[i] : i \in Indices}
FileNames == {"/a/x.log", "/b/y.log"}
DirNames == {"/a/sub"}
Names == FileNames \cup DirNames
\* the directory an entry lives in
Parent(n) == IF n = "/b/y.log" THEN "/b" ELSE "/a"
\* the records a log file on disk holds, as byte lengths
FileRecords(p) == <<RecLen, RecLen, RecLen>>

NoEvent == [Op |-> {}, Name |-> ""]
\* the Op masks fsnotify delivers
EventOps == {{"WRITE"}, {"CREATE"}, {"REMOVE"}, {"RENAME"}, {"CHMOD"}}

(* ------------------------------------------------------------------ *)
(* FileState and the registry                                           *)
(* ------------------------------------------------------------------ *)
FileState(path, offset, start, last, index) ==
    [Path |-> path, Offset |-> offset, StartReadTime |-> start,
     LastReadTime |-> last, IndexName |-> index]

EmptyRegistry == [p \in {} |-> FileState("", 0, 0, 0, "")]

MapPut(m, k, v) == [p \in DOMAIN m \cup {k} |-> IF p = k THEN v ELSE m[p]]
MapDelete(m, k) == [p \in DOMAIN m \ {k} |-> m[p]]

(* ------------------------------------------------------------------ *)
(* The snapshot file and its JSON encoding                              *)
(* ------------------------------------------------------------------ *)
\* a file is absent, or holds bytes: nothing, a JSON object, or garbage
AbsentFile == [kind |-> "absent", body |-> {}]
EmptyFile == [kind |-> "empty", body |-> {}]
MalformedFile == [kind |-> "malformed", body |-> {}]

\* a path whose file name holds the byte 0xFF, which no UTF-8 text holds
\* (a Go string and a Linux file name are arbitrary bytes)
RawName == "/a/<FF>.log"
\* a JSON string as encoding/json writes it: the bytes that are not valid
\* UTF-8 are replaced by U+FFFD
ToValidUTF8(str) == IF str = RawName THEN "/a/<U+FFFD>.log" ELSE str

\* an encoding that leaves Offset out, as for a field that is not exported
JsonEncode_NoOffset(m) ==
    [kind |-> "object",
     body |-> {<<ToValidUTF8(k),
                 [Path |-> ToValidUTF8(m[k].Path), Offset |-> 0,
                  StartReadTime |-> m[k].StartReadTime,
                  LastReadTime |-> m[k].LastReadTime,
                  IndexName |-> ToValidUTF8(m[k].IndexName)]>> : k \in DOMAIN m}]

\* json.Encoder.Encode(&GlobalFileStates): one member per key, the value an
\* object holding the exported fields under their Go names
JsonEncode(m) ==
    [kind |-> "object",
     body |-> {<<ToValidUTF8(k),
                 [Path |-> ToValidUTF8(m[k].Path), Offset |-> m[k].Offset,
                  StartReadTime |-> m[k].StartReadTime,
                  LastReadTime |-> m[k].LastReadTime,
                  IndexName |-> ToValidUTF8(m[k].IndexName)]>> : k \in DOMAIN m}]

\* json.Decoder.Decode(&GlobalFileStates): io.EOF on an empty stream, a
\* syntax error on garbage, else the members are stored into the map
JsonDecodeOk(f) == f.kind = "object"
JsonDecode(m, f) ==
    LET keys == {kv[1] : kv \in f.body}
        val(k) == (CHOOSE kv \in f.body : kv[1] = k)[2]
    IN [p \in DOMAIN m \cup keys |->
          IF p \in keys
            THEN FileState(val(p).Path, val(p).Offset, val(p).StartReadTime,
                           val(p).LastReadTime, val(p).IndexName)
            ELSE m[p]]

\* the registries a snapshot left by an earlier run can hold
SnapshotStates(p) ==
    {FileState(p, 0, 0, 0, i) : i \in Indices}
      \cup {FileState(p, RecLen, 1, 1, i) : i \in Indices}
SnapshotRegistries ==
    UNION {[S -> UNION {SnapshotStates(p) : p \in S}] :
             S \in {T \in SUBSET FileNames : Cardinality(T) <= MaxSnapshotEntries}}
\* the snapshot files an earlier run can have left
WarmFiles ==
    {JsonEncode(r) : r \in {m \in SnapshotRegistries :
                              \A p \in DOMAIN m : m[p].Path = p}}
InitialFiles == {AbsentFile, EmptyFile, MalformedFile} \cup WarmFiles
\* the registries the store can hold: any entries for the log files and for
\* a file whose name is not UTF-8
Registries ==
    {m \in UNION {[S -> UNION {SnapshotStates(p) : p \in S}] :
                    S \in SUBSET (FileNames \cup {RawName})} :
       \A p \in DOMAIN m : m[p].Path = p}

\* the outcome of SaveGlobalFileStatesToDiskFile on the file: the open with
\* O_TRUNC fails and leaves the file alone, or the registry is encoded
SaveFile(f, m, ok) == IF ok THEN JsonEncode(m) ELSE f

(* ------------------------------------------------------------------ *)
(* Reconciliation                                                       *)
(* ------------------------------------------------------------------ *)
\* k3.FetchDirectory(dir, -1): the regular files below dir
FetchDirectory(dir, d) == {n \in d \cap FileNames : Parent(n) = dir}

\* totalFiles: per index, the files of the roots whose enumeration did not
\* fail (a failing root is skipped by `continue`)
TotalFiles(d, failed) ==
    [i \in Indices |-> UNION {FetchDirectory(r, d) : r \in Directory[i] \ failed}]

\* tempDiskFiles assigned, not appended to: it ends as the files of the index
\* visited last
Reconcile_LastIndexOnly(m, d, failed) ==
    LET globalFileStatesKeys == DOMAIN m
        totalFiles == TotalFiles(d, failed)
        tempDiskFiles == totalFiles["B"]
        indexOf(p) == CHOOSE i \in Indices : p \in totalFiles[i]
        added == [p \in globalFileStatesKeys \cup UNION {totalFiles[i] : i \in Indices} |->
                    IF p \in globalFileStatesKeys
                      THEN m[p]
                      ELSE FileState(p, 0, 0, 0, indexOf(p))]
    IN [p \in DOMAIN added \ {k \in globalFileStatesKeys : k \notin tempDiskFiles}
          |-> added[p]]

\* the registry ScanLogFileToGlobalFileStatesAndSaveToDiskFile leaves
Reconcile(m, d, failed) ==
    LET globalFileStatesKeys == DOMAIN m
        totalFiles == TotalFiles(d, failed)
        tempDiskFiles == UNION {totalFiles[i] : i \in Indices}
        indexOf(p) == CHOOSE i \in Indices : p \in totalFiles[i]
        added == [p \in globalFileStatesKeys \cup tempDiskFiles |->
                    IF p \in globalFileStatesKeys
                      THEN m[p]
                      ELSE FileState(p, 0, 0, 0, indexOf(p))]
    IN [p \in DOMAIN added \ {k \in globalFileStatesKeys : k \notin tempDiskFiles}
          |-> added[p]]

(* ------------------------------------------------------------------ *)
(* Readers                                                              *)
(* ------------------------------------------------------------------ *)
\* the positions of a ReadFileByOffset goroutine: waiting for a slot of
\* processingSem, holding a slot before LoadOrStore, past the per-path gate,
\* turned away by the gate, and past processingMap.Delete
Stages == {"wait", "gate", "body", "skip", "rel"}
NoReaders == [p \in FileNames |-> [s \in Stages |-> 0]]
Move(r, p, from, to) ==
    [r EXCEPT ![p] = [s \in Stages |->
        IF s = from /\ s = to THEN r[p][s]
        ELSE IF s = from THEN r[p][s] - 1
        ELSE IF s = to THEN r[p][s] + 1
        ELSE r[p][s]]]
\* syncInterval as ClockSyncGlobalFileStatesToDiskFile clamps it
ClampSyncInterval(n) == IF n < 0 \/ n > DefaultSyncInterval THEN DefaultSyncInterval ELSE n

\* maxReadCount as ReadFileByOffset clamps it
ClampMaxReadCount(n) == IF n < 0 \/ n > DefaultMaxReadCount THEN DefaultMaxReadCount ELSE n

\* handlerEvent: the handler an Op mask is dispatched to
HandlerOf(op) ==
    IF "WRITE" \in op THEN "write"
    ELSE IF "CREATE" \in op THEN "create"
    ELSE IF "REMOVE" \in op \/ "RENAME" \in op THEN "remove"
    ELSE "select"

VARIABLES
    mainPc,            \* position of the goroutine that calls Run and Closed
    file,              \* content of the snapshot file FileStateFilePath
    disk,              \* the files and directories that exist under the roots
    unreadable,        \* the roots k3.FetchDirectory fails on
    syncInterval,      \* config.GlobalConfig.Watch.SyncInterval
    GlobalFileStates,  \* the registry
    mutex,             \* holder of GlobalFileStatesLock, or "free"
    cancelled,         \* WatcherContext is done
    crashed,           \* the process died of a panic: no goroutine runs any more
    isSuccess,         \* content of InitWatcher's result channel
    chanClosed,        \* isSuccess has been closed
    recvCount,         \* i of InitWatcher's receive loop
    initErr,           \* err of InitWatcher
    runErr,            \* the error Run returned, "nil" while it has returned none
    wpc,               \* position of each forkWatcher goroutine
    werr,              \* err of each forkWatcher: its initialization result
    wev,               \* the event a worker is handling
    watchSet,          \* the directories each worker's watcher watches
    evq,               \* the events queued on each watcher.Events
    nEvents,           \* filesystem changes made so far
    tpc,               \* position of the ticker goroutine
    obs,               \* positions of the two wait-group observers
    rd,                \* per path, the number of readers at each position
    processingMap,     \* the in-flight set
    processingSem,     \* slots of processingSem taken
    sink               \* records forwarded to GlobalDataAnalytics

vars == <<mainPc, file, disk, unreadable, syncInterval, GlobalFileStates, mutex, cancelled, crashed,
          isSuccess, chanClosed, recvCount, initErr, runErr,
          wpc, werr, wev, watchSet, evq, nEvents, tpc, obs, rd, processingMap, processingSem, sink>>

mainVars == <<isSuccess, chanClosed, recvCount, initErr, runErr>>
workerVars == <<wpc, werr, wev, watchSet>>
readerVars == <<rd, processingMap, processingSem, sink>>
storeVars == <<file, GlobalFileStates, mutex>>

\* no goroutine has been started and nothing is locked, queued or in flight
InitGoroutines ==
    /\ mutex = "free"
    /\ cancelled = FALSE
    /\ crashed = FALSE
    /\ isSuccess = <<>>
    /\ chanClosed = FALSE
    /\ recvCount = 0
    /\ initErr = "nil"
    /\ runErr = "nil"
    /\ wpc = [w \in Indices |-> "none"]
    /\ werr = [w \in Indices |-> "nil"]
    /\ wev = [w \in Indices |-> NoEvent]
    /\ watchSet = [w \in Indices |-> {}]
    /\ evq = [w \in Indices |-> <<>>]
    /\ nEvents = 0
    /\ tpc = "none"
    /\ obs = [o \in {"watcher", "clock"} |-> "none"]
    /\ rd = NoReaders
    /\ processingMap = {}
    /\ processingSem = 0
    /\ sink = <<>>

\* the process has been started and Run has not been called yet
InitProcess ==
    /\ mainPc = "start"
    /\ GlobalFileStates = EmptyRegistry
    /\ InitGoroutines

\* any start: the snapshot file is absent, empty, garbage or left by an
\* earlier run, and any of the log files exist
Init ==
    /\ file \in InitialFiles
    /\ disk \in SUBSET FileNames
    /\ unreadable \in SUBSET Roots
    /\ syncInterval = DefaultSyncInterval
    /\ InitProcess

\* a warm start: an earlier run left its snapshot and the log files exist
WarmInit ==
    /\ file \in WarmFiles
    /\ disk = FileNames
    /\ unreadable \in SUBSET Roots
    /\ syncInterval = DefaultSyncInterval
    /\ InitProcess

(* ------------------------------------------------------------------ *)
(* Run                                                                  *)
(* ------------------------------------------------------------------ *)
\* InitVars and InitConsumerBatchLog
RunInit ==
    /\ mainPc = "start"
    /\ \E ok \in BOOLEAN :
         /\ mainPc' = IF ok THEN "ensure" ELSE "failed"
         /\ runErr' = IF ok THEN "nil" ELSE "InitConsumerBatchLog failed"
    /\ UNCHANGED <<storeVars, disk, unreadable, syncInterval, cancelled, crashed, isSuccess, chanClosed,
                   recvCount, initErr, workerVars,
                   evq, nEvents, tpc, obs, readerVars>>

\* the state file is created when it does not exist
RunEnsureFile ==
    /\ mainPc = "ensure"
    /\ IF file.kind = "absent"
         THEN \E ok \in BOOLEAN :
                /\ file' = IF ok THEN EmptyFile ELSE file
                /\ mainPc' = IF ok THEN "load" ELSE "failed"
                /\ runErr' = IF ok THEN "nil" ELSE "create state file failed"
         ELSE mainPc' = "load" /\ file' = file /\ runErr' = "nil"
    /\ UNCHANGED <<GlobalFileStates, mutex, disk, unreadable, syncInterval, cancelled, crashed, isSuccess,
                   chanClosed, recvCount, initErr, workerVars, evq, nEvents, tpc, obs, readerVars>>

\* LoadDiskFileToGlobalFileStates
RunLoad ==
    /\ mainPc = "load"
    /\ mutex = "free"
    /\ \E openOk \in BOOLEAN :
         IF openOk /\ JsonDecodeOk(file)
           THEN /\ GlobalFileStates' = JsonDecode(GlobalFileStates, file)
                /\ mainPc' = "scan"
                /\ runErr' = "nil"
           ELSE /\ GlobalFileStates' = GlobalFileStates
                /\ mainPc' = "failed"
                /\ runErr' = IF openOk THEN "json decode failed"
                                       ELSE "open state file failed"
    /\ UNCHANGED <<file, mutex, disk, unreadable, syncInterval, cancelled, crashed, isSuccess, chanClosed,
                   recvCount, initErr, workerVars,
                   evq, nEvents, tpc, obs, readerVars>>

\* ScanLogFileToGlobalFileStatesAndSaveToDiskFile
RunScan ==
    /\ mainPc = "scan"
    /\ mutex = "free"
    /\ \E saveOk \in BOOLEAN :
         /\ GlobalFileStates' = Reconcile(GlobalFileStates, disk, unreadable)
         /\ file' = SaveFile(file, GlobalFileStates', saveOk)
         /\ mainPc' = IF saveOk THEN "spawn" ELSE "failed"
         /\ runErr' = IF saveOk THEN "nil" ELSE "save file state to disk failed"
    /\ UNCHANGED <<mutex, disk, unreadable, syncInterval, cancelled, crashed, isSuccess, chanClosed,
                   recvCount, initErr, workerVars,
                   evq, nEvents, tpc, obs, readerVars>>

\* SaveGlobalFileStatesToDiskFile called on the registry as it stands, before
\* it is loaded back
RoundTripSave ==
    /\ mainPc = "save"
    /\ mutex = "free"
    /\ \E ok \in BOOLEAN :
         /\ file' = SaveFile(file, GlobalFileStates, ok)
         /\ mainPc' = IF ok THEN "load" ELSE "failed"
         /\ runErr' = IF ok THEN "nil" ELSE "open state file failed"
    /\ UNCHANGED <<GlobalFileStates, mutex, disk, unreadable, syncInterval, cancelled, crashed,
                   isSuccess, chanClosed, recvCount, initErr, workerVars,
                   evq, nEvents, tpc, obs, readerVars>>

\* ScanLogFileToGlobalFileStatesAndSaveToDiskFile called a second time, right
\* after it returned
RunScanAgain ==
    /\ mainPc = "spawn"
    /\ mutex = "free"
    /\ \E saveOk \in BOOLEAN :
         /\ GlobalFileStates' = Reconcile(GlobalFileStates, disk, unreadable)
         /\ file' = SaveFile(file, GlobalFileStates', saveOk)
         /\ mainPc' = IF saveOk THEN "rescanned" ELSE "failed"
         /\ runErr' = IF saveOk THEN "nil" ELSE "save file state to disk failed"
    /\ UNCHANGED <<mutex, disk, unreadable, syncInterval, cancelled, crashed, isSuccess,
                   chanClosed, recvCount, initErr, workerVars,
                   evq, nEvents, tpc, obs, readerVars>>

\* InitWatcher, lines 240-250: one forkWatcher goroutine per index and the
\* goroutine that waits for WatcherWG
RunSpawn ==
    /\ ~crashed
    /\ mainPc = "spawn"
    /\ wpc' = [w \in Indices |-> "init"]
    /\ obs' = [obs EXCEPT !["watcher"] = "wait"]
    /\ mainPc' = "recv"
    /\ UNCHANGED <<storeVars, disk, unreadable, syncInterval, cancelled, crashed, mainVars, werr, wev,
                   watchSet, evq, nEvents, tpc, readerVars>>

\* a receive loop that stops after its first receive
RunRecv_First ==
    /\ ~crashed
    /\ mainPc = "recv"
    /\ isSuccess # <<>>
    /\ isSuccess' = Tail(isSuccess)
    /\ initErr' = Head(isSuccess)
    /\ cancelled' = (cancelled \/ Head(isSuccess) # "nil")
    /\ recvCount' = recvCount
    /\ mainPc' = "close"
    /\ UNCHANGED <<storeVars, disk, unreadable, syncInterval, crashed, chanClosed, runErr,
                   workerVars, evq, nEvents, tpc, obs, readerVars>>

\* InitWatcher, lines 253-259: one receive of the loop over isSuccess
RunRecv ==
    /\ ~crashed
    /\ mainPc = "recv"
    /\ isSuccess # <<>>
    /\ isSuccess' = Tail(isSuccess)
    /\ IF Head(isSuccess) # "nil"
         THEN /\ initErr' = Head(isSuccess)
              /\ cancelled' = TRUE
              /\ recvCount' = recvCount
              /\ mainPc' = "close"
         ELSE /\ initErr' = "nil"
              /\ cancelled' = cancelled
              /\ recvCount' = recvCount + 1
              /\ mainPc' = IF recvCount + 1 = Cardinality(Indices)
                             THEN "close" ELSE "recv"
    /\ UNCHANGED <<storeVars, disk, unreadable, syncInterval, crashed, chanClosed, runErr,
                   workerVars, evq, nEvents, tpc, obs, readerVars>>

\* InitWatcher, lines 260-262, and Run's return on its error
RunClose ==
    /\ ~crashed
    /\ mainPc = "close"
    /\ chanClosed' = TRUE
    /\ mainPc' = IF initErr # "nil" THEN "failed_closed" ELSE "clock"
    /\ runErr' = initErr
    /\ recvCount' = 0
    /\ initErr' = "nil"
    /\ UNCHANGED <<storeVars, disk, unreadable, syncInterval, cancelled, crashed, isSuccess,
                   workerVars, evq, nEvents, tpc, obs, readerVars>>

\* ClockSyncGlobalFileStatesToDiskFile: the interval is clamped and the
\* ticker created (time.NewTicker panics on a period that is not positive);
\* the ticker goroutine and the goroutine that waits for ClockWG are started
\* and Run returns Closed
RunClock ==
    /\ ~crashed
    /\ mainPc = "clock"
    /\ IF ClampSyncInterval(syncInterval) <= 0
         THEN /\ crashed' = TRUE
              /\ UNCHANGED <<tpc, obs, mainPc>>
         ELSE /\ crashed' = crashed
              /\ tpc' = "loop"
              /\ obs' = [obs EXCEPT !["clock"] = "wait"]
              /\ mainPc' = "running"
    /\ UNCHANGED <<storeVars, disk, unreadable, syncInterval, cancelled, mainVars, workerVars,
                   evq, nEvents, readerVars>>

\* the caller invokes the callback Run returned
Closed ==
    /\ ~crashed
    /\ mainPc \in {"running", "failed_closed"}
    /\ cancelled' = TRUE
    /\ mainPc' = "closed"
    /\ UNCHANGED <<storeVars, disk, unreadable, syncInterval, crashed, mainVars, workerVars, evq,
                   nEvents, tpc, obs, readerVars>>

(* ------------------------------------------------------------------ *)
(* forkWatcher                                                          *)
(* ------------------------------------------------------------------ *)
\* lines 276-294: fsnotify.NewWatcher and watcher.Add of every directory
WorkerInit(w) ==
    /\ ~crashed
    /\ wpc[w] = "init"
    /\ \E res \in {"nil", "new_failed", "add_failed"} :
         /\ werr' = [werr EXCEPT ![w] = res]
         /\ watchSet' = [watchSet EXCEPT ![w] = IF res = "nil" THEN Directory[w] ELSE {}]
         /\ cancelled' = (cancelled \/ res # "nil")
    /\ wpc' = [wpc EXCEPT ![w] = "send"]
    /\ UNCHANGED <<mainPc, storeVars, disk, unreadable, syncInterval, crashed, mainVars, wev, evq,
                   nEvents, tpc, obs, readerVars>>

\* the send on isSuccess (lines 280, 291, 297); after a failure the worker
\* returns and its deferred calls run. A send on a closed channel panics.
WorkerSend(w) ==
    /\ ~crashed
    /\ wpc[w] = "send"
    /\ IF chanClosed
         THEN /\ crashed' = TRUE
              /\ UNCHANGED <<isSuccess, wpc, watchSet, cancelled>>
         ELSE /\ crashed' = crashed
              /\ isSuccess' = Append(isSuccess, werr[w])
              /\ IF werr[w] = "nil"
                   THEN /\ wpc' = [wpc EXCEPT ![w] = "select"]
                        /\ UNCHANGED <<watchSet, cancelled>>
                   ELSE /\ wpc' = [wpc EXCEPT ![w] = "exited"]
                        /\ watchSet' = [watchSet EXCEPT ![w] = {}]
                        /\ cancelled' = TRUE
    /\ UNCHANGED <<mainPc, storeVars, disk, unreadable, syncInterval, chanClosed, recvCount, initErr,
                   runErr, werr, wev, evq, nEvents, tpc, obs, readerVars>>

\* case event := <-watcher.Events, and handlerEvent's dispatch
WorkerRecv(w) ==
    /\ ~crashed
    /\ wpc[w] = "select"
    /\ evq[w] # <<>>
    /\ evq' = [evq EXCEPT ![w] = Tail(evq[w])]
    /\ wpc' = [wpc EXCEPT ![w] = HandlerOf(Head(evq[w]).Op)]
    /\ wev' = [wev EXCEPT ![w] = IF wpc'[w] = "select" THEN NoEvent ELSE Head(evq[w])]
    /\ UNCHANGED <<mainPc, storeVars, disk, unreadable, syncInterval, cancelled, crashed, mainVars, werr,
                   watchSet, nEvents, tpc, obs, readerVars>>

\* a worker that leaves its loop on a closed channel or a notify error
\* without cancelling
WorkerError_NoCancel(w) ==
    /\ ~crashed
    /\ wpc[w] = "select"
    /\ wpc' = [wpc EXCEPT ![w] = "exited"]
    /\ watchSet' = [watchSet EXCEPT ![w] = {}]
    /\ UNCHANGED <<mainPc, storeVars, disk, unreadable, syncInterval, cancelled, crashed, mainVars,
                   werr, wev, evq, nEvents, tpc, obs, readerVars>>

\* the event or error channel is closed, or watcher.Errors yields an error
WorkerError(w) ==
    /\ ~crashed
    /\ wpc[w] = "select"
    /\ cancelled' = TRUE
    /\ wpc' = [wpc EXCEPT ![w] = "exited"]
    /\ watchSet' = [watchSet EXCEPT ![w] = {}]
    /\ UNCHANGED <<mainPc, storeVars, disk, unreadable, syncInterval, crashed, mainVars, werr, wev, evq,
                   nEvents, tpc, obs, readerVars>>

\* case <-WatcherContext.Done()
WorkerDone(w) ==
    /\ ~crashed
    /\ wpc[w] = "select"
    /\ cancelled
    /\ wpc' = [wpc EXCEPT ![w] = "exited"]
    /\ watchSet' = [watchSet EXCEPT ![w] = {}]
    /\ UNCHANGED <<mainPc, storeVars, disk, unreadable, syncInterval, cancelled, crashed, mainVars, werr,
                   wev, evq, nEvents, tpc, obs, readerVars>>

(* ------------------------------------------------------------------ *)
(* Event handlers                                                       *)
(* ------------------------------------------------------------------ *)
\* another worker is at a write of the registry map
MapWriter(w) ==
    \E v \in Indices \ {w} : wpc[v] \in {"write_lock", "create_lock", "remove"}

\* writeEvent, line 392: the membership test, made without the mutex. It
\* sees the map before or after the write of another worker, or overlaps that
\* write, and the runtime then may abort the process (concurrent map read and
\* map write).
WriteCheck(w) ==
    /\ ~crashed
    /\ wpc[w] = "write"
    /\ \/ /\ wpc' = [wpc EXCEPT ![w] =
                       IF wev[w].Name \in DOMAIN GlobalFileStates
                         THEN "dispatch" ELSE "write_lock"]
          /\ crashed' = crashed
       \/ /\ MapWriter(w)
          /\ crashed' = TRUE
          /\ wpc' = wpc
    /\ UNCHANGED <<mainPc, storeVars, disk, unreadable, syncInterval, cancelled, mainVars, werr,
                   wev, watchSet, evq, nEvents, tpc, obs, readerVars>>

\* writeEvent, lines 393-400: Lock and the insert of the new entry
WriteInsert(w) ==
    /\ ~crashed
    /\ wpc[w] = "write_lock"
    /\ mutex = "free"
    /\ mutex' = w
    /\ \E t1 \in 1..MaxTime, t2 \in 1..MaxTime :
         /\ t1 <= t2
         /\ GlobalFileStates' = MapPut(GlobalFileStates, wev[w].Name,
                                       FileState(wev[w].Name, 0, t1, t2, w))
    /\ wpc' = [wpc EXCEPT ![w] = "write_save"]
    /\ UNCHANGED <<mainPc, file, disk, unreadable, syncInterval, cancelled, crashed, mainVars, werr, wev,
                   watchSet, evq, nEvents, tpc, obs, readerVars>>

\* SaveGlobalFileStatesToDiskFile, called by writeEvent (line 401) or by the
\* ticker (line 485): Lock, open with O_TRUNC, encode, Unlock
SaveGlobalFileStatesToDiskFile(g) ==
    /\ ~crashed
    /\ \/ g \in Indices /\ wpc[g] = "write_save"
       \/ g = "ticker" /\ tpc = "save"
    /\ mutex = "free"
    /\ \E ok \in BOOLEAN : file' = SaveFile(file, GlobalFileStates, ok)
    /\ IF g = "ticker"
         THEN tpc' = "loop" /\ wpc' = wpc
         ELSE tpc' = tpc /\ wpc' = [wpc EXCEPT ![g] = "write_unlock"]
    /\ UNCHANGED <<mainPc, GlobalFileStates, mutex, disk, unreadable, syncInterval, cancelled, crashed,
                   mainVars, werr, wev, watchSet, evq, nEvents, obs, readerVars>>

\* writeEvent, lines 404-409: Unlock when the entry was inserted, then
\* processingWg.Add(1) and go ReadFileByOffset
WriteDispatch(w) ==
    /\ ~crashed
    /\ wpc[w] \in {"write_unlock", "dispatch"}
    /\ mutex' = IF wpc[w] = "write_unlock" THEN "free" ELSE mutex
    /\ rd' = [rd EXCEPT ![wev[w].Name]["wait"] = @ + 1]
    /\ wpc' = [wpc EXCEPT ![w] = "select"]
    /\ wev' = [wev EXCEPT ![w] = NoEvent]
    /\ UNCHANGED <<mainPc, file, GlobalFileStates, disk, unreadable, syncInterval, cancelled, crashed,
                   mainVars, werr, watchSet, evq, nEvents, tpc, obs,
                   processingMap, processingSem, sink>>

\* createEvent, lines 419-430: k3.IsDirectory and, for a directory,
\* watcher.Add
CreateStat(w) ==
    /\ ~crashed
    /\ wpc[w] = "create"
    /\ IF wev[w].Name \notin disk
         THEN wpc' = [wpc EXCEPT ![w] = "select"] /\ watchSet' = watchSet
         ELSE IF wev[w].Name \in DirNames
           THEN /\ wpc' = [wpc EXCEPT ![w] = "select"]
                /\ \E ok \in BOOLEAN :
                     watchSet' = [watchSet EXCEPT ![w] =
                                    IF ok THEN @ \cup {wev[w].Name} ELSE @]
           ELSE wpc' = [wpc EXCEPT ![w] = "create_lock"] /\ watchSet' = watchSet
    /\ wev' = [wev EXCEPT ![w] = IF wpc'[w] = "select" THEN NoEvent ELSE @]
    /\ UNCHANGED <<mainPc, storeVars, disk, unreadable, syncInterval, cancelled, crashed, mainVars, werr,
                   evq, nEvents, tpc, obs, readerVars>>

\* a createEvent that goes on to read the new file, as writeEvent does
CreateInsert_Dispatch(w) ==
    /\ ~crashed
    /\ wpc[w] = "create_lock"
    /\ mutex = "free"
    /\ GlobalFileStates' = MapPut(GlobalFileStates, wev[w].Name,
                                  FileState(wev[w].Name, 0, 0, 0, w))
    /\ rd' = [rd EXCEPT ![wev[w].Name]["wait"] = @ + 1]
    /\ wpc' = [wpc EXCEPT ![w] = "select"]
    /\ wev' = [wev EXCEPT ![w] = NoEvent]
    /\ UNCHANGED <<mainPc, file, mutex, disk, unreadable, syncInterval, cancelled, crashed,
                   mainVars, werr, watchSet, evq, nEvents, tpc, obs,
                   processingMap, processingSem, sink>>

\* createEvent, lines 433-441
CreateInsert(w) ==
    /\ ~crashed
    /\ wpc[w] = "create_lock"
    /\ mutex = "free"
    /\ GlobalFileStates' = MapPut(GlobalFileStates, wev[w].Name,
                                  FileState(wev[w].Name, 0, 0, 0, w))
    /\ wpc' = [wpc EXCEPT ![w] = "select"]
    /\ wev' = [wev EXCEPT ![w] = NoEvent]
    /\ UNCHANGED <<mainPc, file, mutex, disk, unreadable, syncInterval, cancelled, crashed, mainVars,
                   werr, watchSet, evq, nEvents, tpc, obs, readerVars>>

\* a removeEvent that stops watching the path and leaves its entry in the
\* registry
RemoveEvent_KeepsEntry(w) ==
    /\ ~crashed
    /\ wpc[w] = "remove"
    /\ mutex = "free"
    /\ watchSet' = [watchSet EXCEPT ![w] = @ \ {wev[w].Name}]
    /\ wpc' = [wpc EXCEPT ![w] = "select"]
    /\ wev' = [wev EXCEPT ![w] = NoEvent]
    /\ UNCHANGED <<mainPc, file, GlobalFileStates, mutex, disk, unreadable, syncInterval,
                   cancelled, crashed, mainVars, werr, evq, nEvents, tpc, obs, readerVars>>

\* removeEvent
RemoveEvent(w) ==
    /\ ~crashed
    /\ wpc[w] = "remove"
    /\ mutex = "free"
    /\ GlobalFileStates' = MapDelete(GlobalFileStates, wev[w].Name)
    /\ watchSet' = [watchSet EXCEPT ![w] = @ \ {wev[w].Name}]
    /\ wpc' = [wpc EXCEPT ![w] = "select"]
    /\ wev' = [wev EXCEPT ![w] = NoEvent]
    /\ UNCHANGED <<mainPc, file, mutex, disk, unreadable, syncInterval, cancelled, crashed, mainVars,
                   werr, evq, nEvents, tpc, obs, readerVars>>

(* ------------------------------------------------------------------ *)
(* The file system                                                      *)
(* ------------------------------------------------------------------ *)
\* a change of the entry `name`; every watcher that watches its directory
\* gets the event
Change(op, name, budget) ==
    /\ ~crashed
    /\ mainPc \notin {"start", "ensure", "load", "scan", "failed"}
    /\ nEvents < budget
    /\ \A w \in Indices : Parent(name) \in watchSet[w] => Len(evq[w]) < MaxQueue
    /\ nEvents' = nEvents + 1
    /\ \/ op = {"CREATE"} /\ disk' = disk \cup {name}
       \/ op \in {{"REMOVE"}, {"RENAME"}} /\ name \in disk /\ disk' = disk \ {name}
       \/ op = {"WRITE"} /\ name \in disk \cap FileNames /\ disk' = disk
       \/ op = {"CHMOD"} /\ name \in disk /\ disk' = disk
    /\ evq' = [w \in Indices |->
                 IF Parent(name) \in watchSet[w]
                   THEN Append(evq[w], [Op |-> op, Name |-> name])
                   ELSE evq[w]]
    /\ UNCHANGED <<mainPc, storeVars, unreadable, syncInterval, cancelled, crashed, mainVars,
                   workerVars, tpc, obs, readerVars>>

\* any change of an entry below the roots
FsChange(op, name) == Change(op, name, MaxEvents)

\* an append to a log file
FsWrite(name) == Change({"WRITE"}, name, MaxWrites)

(* ------------------------------------------------------------------ *)
(* The snapshot ticker and the wait-group observers                     *)
(* ------------------------------------------------------------------ *)
\* case <-t.C
TickerFire ==
    /\ ~crashed
    /\ tpc = "loop"
    /\ tpc' = "save"
    /\ UNCHANGED <<mainPc, storeVars, disk, unreadable, syncInterval, cancelled, crashed, mainVars,
                   workerVars, evq, nEvents, obs, readerVars>>

\* case <-WatcherContext.Done(), and the deferred calls
TickerDone ==
    /\ ~crashed
    /\ tpc = "loop"
    /\ cancelled
    /\ tpc' = "exited"
    /\ UNCHANGED <<mainPc, storeVars, disk, unreadable, syncInterval, cancelled, crashed, mainVars,
                   workerVars, evq, nEvents, obs, readerVars>>

\* the goroutines of lines 246-250 and 495-499
Observer(o) ==
    /\ ~crashed
    /\ obs[o] = "wait"
    /\ IF o = "watcher" THEN \A w \in Indices : wpc[w] = "exited"
                        ELSE tpc = "exited"
    /\ cancelled' = TRUE
    /\ obs' = [obs EXCEPT ![o] = "done"]
    /\ UNCHANGED <<mainPc, storeVars, disk, unreadable, syncInterval, crashed, mainVars, workerVars, evq,
                   nEvents, tpc, readerVars>>

(* ------------------------------------------------------------------ *)
(* ReadFileByOffset                                                     *)
(* ------------------------------------------------------------------ *)
\* a send that does not block when every slot is taken
ReaderAcquire_NoCap(p) ==
    /\ ~crashed
    /\ rd[p]["wait"] > 0
    /\ processingSem' = processingSem + 1
    /\ rd' = Move(rd, p, "wait", "gate")
    /\ UNCHANGED <<mainPc, storeVars, disk, unreadable, syncInterval, cancelled, crashed,
                   mainVars, workerVars, evq, nEvents, tpc, obs, processingMap,
                   sink>>

\* line 356: processingSem <- struct{}{}
ReaderAcquire(p) ==
    /\ ~crashed
    /\ rd[p]["wait"] > 0
    /\ processingSem < MaxConcurrentReads
    /\ processingSem' = processingSem + 1
    /\ rd' = Move(rd, p, "wait", "gate")
    /\ UNCHANGED <<mainPc, storeVars, disk, unreadable, syncInterval, cancelled, crashed, mainVars,
                   workerVars, evq, nEvents, tpc, obs, processingMap, sink>>

\* a Store in place of LoadOrStore: the reader goes on whether or not the
\* path is in flight
ReaderGate_NoGate(p) ==
    /\ ~crashed
    /\ rd[p]["gate"] > 0
    /\ rd' = Move(rd, p, "gate", "body")
    /\ processingMap' = processingMap \cup {p}
    /\ UNCHANGED <<mainPc, storeVars, disk, unreadable, syncInterval, cancelled, crashed,
                   mainVars, workerVars, evq, nEvents, tpc, obs, processingSem,
                   sink>>

\* line 362: processingMap.LoadOrStore
ReaderGate(p) ==
    /\ ~crashed
    /\ rd[p]["gate"] > 0
    /\ IF p \in processingMap
         THEN rd' = Move(rd, p, "gate", "skip") /\ processingMap' = processingMap
         ELSE rd' = Move(rd, p, "gate", "body") /\ processingMap' = processingMap \cup {p}
    /\ UNCHANGED <<mainPc, storeVars, disk, unreadable, syncInterval, cancelled, crashed, mainVars,
                   workerVars, evq, nEvents, tpc, obs, processingSem, sink>>

\* lines 368-385: maxReadCount is clamped, nothing is opened, read or sent,
\* and the path leaves the in-flight set
ReaderBody(p) ==
    /\ ~crashed
    /\ rd[p]["body"] > 0
    /\ ClampMaxReadCount(ConfigMaxReadCount) >= 0
    /\ processingMap' = processingMap \ {p}
    /\ rd' = Move(rd, p, "body", "rel")
    /\ UNCHANGED <<mainPc, storeVars, disk, unreadable, syncInterval, cancelled, crashed, mainVars,
                   workerVars, evq, nEvents, tpc, obs, processingSem, sink>>

\* processingMap.Delete deferred ahead of the gate: a reader that was turned
\* away removes the mark as well
ReaderRelease_DeletesMark(p) ==
    /\ ~crashed
    /\ \E s \in {"skip", "rel"} :
         /\ rd[p][s] > 0
         /\ rd' = [rd EXCEPT ![p][s] = @ - 1]
    /\ processingSem' = processingSem - 1
    /\ processingMap' = processingMap \ {p}
    /\ UNCHANGED <<mainPc, storeVars, disk, unreadable, syncInterval, cancelled, crashed,
                   mainVars, workerVars, evq, nEvents, tpc, obs, sink>>

\* the deferred <-processingSem and processingWg.Done()
ReaderRelease(p) ==
    /\ ~crashed
    /\ \E s \in {"skip", "rel"} :
         /\ rd[p][s] > 0
         /\ rd' = [rd EXCEPT ![p][s] = @ - 1]
    /\ processingSem' = processingSem - 1
    /\ UNCHANGED <<mainPc, storeVars, disk, unreadable, syncInterval, cancelled, crashed, mainVars,
                   workerVars, evq, nEvents, tpc, obs, processingMap, sink>>

Next ==
    \/ RunInit
    \/ RunEnsureFile
    \/ RunLoad
    \/ RunScan
    \/ RunSpawn
    \/ RunRecv
    \/ RunClose
    \/ RunClock
    \/ Closed
    \/ \E w \in Indices : WorkerInit(w)
    \/ \E w \in Indices : WorkerSend(w)
    \/ \E w \in Indices : WorkerRecv(w)
    \/ \E w \in Indices : WorkerError(w)
    \/ \E w \in Indices : WorkerDone(w)
    \/ \E w \in Indices : WriteCheck(w)
    \/ \E w \in Indices : WriteInsert(w)
    \/ \E g \in Indices \cup {"ticker"} : SaveGlobalFileStatesToDiskFile(g)
    \/ \E w \in Indices : WriteDispatch(w)
    \/ \E w \in Indices : CreateStat(w)
    \/ \E w \in Indices : CreateInsert(w)
    \/ \E w \in Indices : RemoveEvent(w)
    \/ \E op \in EventOps, name \in Names : FsChange(op, name)
    \/ TickerFire
    \/ TickerDone
    \/ \E o \in {"watcher", "clock"} : Observer(o)
    \/ \E p \in FileNames : ReaderAcquire(p)
    \/ \E p \in FileNames : ReaderGate(p)
    \/ \E p \in FileNames : ReaderBody(p)
    \/ \E p \in FileNames : ReaderRelease(p)

\* start-up until the Reconciler has returned
StartNext ==
    \/ RunInit
    \/ RunEnsureFile
    \/ RunLoad
    \/ RunScan
    \/ RunSpawn

StartSpec == Init /\ [][StartNext]_vars

\* the state store on its own: the registry holds anything, it is saved and
\* loaded back, and the Reconciler is then run twice
StoreInit ==
    /\ mainPc = "save"
    /\ GlobalFileStates \in Registries
    /\ file \in {EmptyFile, MalformedFile}
    /\ disk \in SUBSET FileNames
    /\ unreadable \in SUBSET Roots
    /\ syncInterval = DefaultSyncInterval
    /\ InitGoroutines

StoreNext ==
    \/ RoundTripSave
    \/ RunLoad
    \/ RunScan
    \/ RunScanAgain

StoreSpec == StoreInit /\ [][StoreNext]_vars

Spec == WarmInit /\ [][Next]_vars

\* the environment only appends to the log files
ReadNext ==
    \/ RunInit
    \/ RunEnsureFile
    \/ RunLoad
    \/ RunScan
    \/ RunSpawn
    \/ RunRecv
    \/ RunClose
    \/ RunClock
    \/ Closed
    \/ \E w \in Indices : WorkerInit(w)
    \/ \E w \in Indices : WorkerSend(w)
    \/ \E w \in Indices : WorkerRecv(w)
    \/ \E w \in Indices : WorkerError(w)
    \/ \E w \in Indices : WorkerDone(w)
    \/ \E w \in Indices : WriteCheck(w)
    \/ \E w \in Indices : WriteInsert(w)
    \/ \E g \in Indices \cup {"ticker"} : SaveGlobalFileStatesToDiskFile(g)
    \/ \E w \in Indices : WriteDispatch(w)
    \/ \E name \in FileNames : FsWrite(name)
    \/ TickerFire
    \/ TickerDone
    \/ \E o \in {"watcher", "clock"} : Observer(o)
    \/ \E p \in FileNames : ReaderAcquire(p)
    \/ \E p \in FileNames : ReaderGate(p)
    \/ \E p \in FileNames : ReaderBody(p)
    \/ \E p \in FileNames : ReaderRelease(p)

\* an earlier run read the first record of x.log; both log files exist, and
\* y.log may be missing from the registry because its root was unreadable
ReadInit ==
    /\ file = JsonEncode(MapPut(EmptyRegistry, "/a/x.log",
                                FileState("/a/x.log", RecLen, 1, 1, "A")))
    /\ disk = FileNames
    /\ unreadable \in {{}, {"/b"}}
    /\ syncInterval = DefaultSyncInterval
    /\ InitProcess

ReadSpec == ReadInit /\ [][ReadNext]_vars

\* an earlier run left an empty registry, y.log exists and x.log is yet to
\* be created
LiveInit ==
    /\ file = JsonEncode(EmptyRegistry)
    /\ disk = {"/b/y.log"}
    /\ unreadable = {}
    /\ syncInterval = DefaultSyncInterval
    /\ InitProcess

\* every goroutine that can take a step eventually takes it, and a select
\* whose Done case is ready again and again eventually takes it (select picks
\* among its ready cases at random); the file system, the timer and the
\* caller of Closed are under no obligation
Fairness ==
    /\ WF_vars(RunInit \/ RunEnsureFile \/ RunLoad \/ RunScan \/ RunSpawn
                 \/ RunRecv \/ RunClose \/ RunClock)
    /\ \A w \in Indices :
         /\ WF_vars(WorkerInit(w) \/ WorkerSend(w) \/ WorkerRecv(w)
                      \/ WriteCheck(w) \/ WriteInsert(w)
                      \/ SaveGlobalFileStatesToDiskFile(w) \/ WriteDispatch(w)
                      \/ CreateStat(w) \/ CreateInsert(w) \/ RemoveEvent(w))
         /\ SF_vars(WorkerDone(w))
    /\ WF_vars(SaveGlobalFileStatesToDiskFile("ticker"))
    /\ SF_vars(TickerDone)
    /\ \A o \in {"watcher", "clock"} : WF_vars(Observer(o))
    /\ \A p \in FileNames :
         WF_vars(ReaderAcquire(p) \/ ReaderGate(p) \/ ReaderBody(p) \/ ReaderRelease(p))

\* start-up, the ticker and shutdown while nothing changes under the roots
QuietNext ==
    \/ RunInit
    \/ RunEnsureFile
    \/ RunLoad
    \/ RunScan
    \/ RunSpawn
    \/ RunRecv
    \/ RunClose
    \/ RunClock
    \/ Closed
    \/ \E w \in Indices : WorkerInit(w)
    \/ \E w \in Indices : WorkerSend(w)
    \/ \E w \in Indices : WorkerError(w)
    \/ \E w \in Indices : WorkerDone(w)
    \/ \E g \in {"ticker"} : SaveGlobalFileStatesToDiskFile(g)
    \/ TickerFire
    \/ TickerDone
    \/ \E o \in {"watcher", "clock"} : Observer(o)

\* the values config.GlobalConfig.Watch.SyncInterval is given
SyncIntervals == (0 - MaxInterval)..(DefaultSyncInterval + MaxInterval)

\* any configured sync_interval
ClockInit ==
    /\ file = JsonEncode(EmptyRegistry)
    /\ disk = {"/b/y.log"}
    /\ unreadable = {}
    /\ syncInterval \in SyncIntervals
    /\ InitProcess

ClockSpec == ClockInit /\ [][QuietNext]_vars

\* every reader goroutine that can take a step eventually takes one
ReaderFairness ==
    \A p \in FileNames :
        WF_vars(ReaderAcquire(p) \/ ReaderGate(p) \/ ReaderBody(p) \/ ReaderRelease(p))

\* the append-only environment with the readers scheduled fairly
ReadFairSpec == ReadInit /\ [][ReadNext]_vars /\ ReaderFairness

\* the same start with no assumption on scheduling
LiveSpec == LiveInit /\ [][Next]_vars

FairSpec == LiveInit /\ [][Next]_vars /\ Fairness

(* ------------------------------------------------------------------ *)
(* Start-up claims                                                      *)
(* ------------------------------------------------------------------ *)
\* the Reconciler has been run by this start
ReconcilerRan ==
    /\ mainPc \notin {"start", "ensure", "load", "scan"}
    /\ runErr \notin {"InitConsumerBatchLog failed", "create state file failed",
                      "open state file failed", "json decode failed"}

\* C3: loading an empty snapshot file succeeds and yields an empty registry,
\* so a start whose snapshot file is empty never returns the decode error and
\* reaches the Reconciler with an empty registry.
C3_EmptyLoadSucceeds ==
    file.kind = "empty" =>
        /\ runErr # "json decode failed"
        /\ mainPc = "scan" => GlobalFileStates = EmptyRegistry

\* C9: when the Reconciler returns success the registry's keys are exactly
\* the regular files that exist under the roots, the entries it added have
\* offset 0 and zero times, and the snapshot file decodes to the registry.
C9_ReconcilerExact ==
    [][(mainPc = "scan" /\ mainPc' = "spawn") =>
          /\ DOMAIN GlobalFileStates' = disk \cap FileNames
          /\ \A p \in DOMAIN GlobalFileStates' \ DOMAIN GlobalFileStates :
               /\ GlobalFileStates'[p].Offset = 0
               /\ GlobalFileStates'[p].StartReadTime = 0
               /\ GlobalFileStates'[p].LastReadTime = 0
          /\ JsonDecodeOk(file')
          /\ JsonDecode(EmptyRegistry, file') = GlobalFileStates']_vars

\* C10: when the enumeration of a root or the save of the snapshot fails, the
\* Reconciler and Run return an error, and no watcher worker and no ticker is
\* started.
C10_ScanFailureAborts ==
    (ReconcilerRan /\ (unreadable # {} \/ runErr = "save file state to disk failed")) =>
        /\ mainPc = "failed"
        /\ runErr # "nil"
        /\ \A w \in Indices : wpc[w] = "none"
        /\ tpc = "none"
(* ------------------------------------------------------------------ *)
(* Watcher claims                                                       *)
(* ------------------------------------------------------------------ *)
\* C1: a worker that handles a WRITE event for a path missing from the
\* registry eventually completes the handler: it is back in its select loop,
\* the mutex is free, the path is registered with offset 0 under the worker's
\* index name and a reader for the path has been dispatched.
C1_WriteEventCompletes ==
    \A w \in Indices, p \in FileNames :
        (wpc[w] = "write_lock" /\ wev[w].Name = p)
          ~> (/\ wpc[w] = "select"
              /\ mutex = "free"
              /\ p \in DOMAIN GlobalFileStates
              /\ GlobalFileStates[p].Offset = 0
              /\ GlobalFileStates[p].IndexName = w
              /\ rd[p]["wait"] >= 1)

\* every watcher worker and the ticker goroutine have terminated
AllStopped ==
    /\ \A w \in Indices : wpc[w] = "exited"
    /\ tpc \in {"none", "exited"}

\* C2: once the cancellation is signaled every watcher worker and the ticker
\* goroutine eventually terminate.
C2_CancelStopsAll == cancelled ~> (crashed \/ AllStopped)

\* C6: the offset of a registry entry never decreases while the entry stays
\* in the registry.
C6_OffsetsMonotonic ==
    [][\A p \in DOMAIN GlobalFileStates \cap DOMAIN GlobalFileStates' :
          GlobalFileStates'[p].Offset >= GlobalFileStates[p].Offset]_vars

\* C7: the non-empty index_name of a registry entry never changes while the
\* entry stays in the registry.
C7_IndexNameStable ==
    [][\A p \in DOMAIN GlobalFileStates \cap DOMAIN GlobalFileStates' :
          GlobalFileStates[p].IndexName # "" =>
              GlobalFileStates'[p].IndexName = GlobalFileStates[p].IndexName]_vars

(* ------------------------------------------------------------------ *)
(* Reader claims                                                        *)
(* ------------------------------------------------------------------ *)
\* C12: loading the snapshot right after the registry was saved to it
\* succeeds unless the file cannot be opened, and leaves the registry as it
\* was: the same keys and every field of every entry unchanged.
C12_SnapshotRoundTrip ==
    [][mainPc = "load" =>
          /\ mainPc' = "scan" => GlobalFileStates' = GlobalFileStates
          /\ mainPc' = "failed" => runErr' = "open state file failed"]_vars

\* C13: a second run of the Reconciler right after the first, with the same
\* configuration and directory tree, changes neither registry nor snapshot.
C13_ReconcilerIdempotent ==
    [][(mainPc = "spawn" /\ mainPc' = "rescanned") =>
          /\ GlobalFileStates' = GlobalFileStates
          /\ file' = file]_vars

C13_Witness ==
    /\ mainPc = "rescanned"
    /\ DOMAIN GlobalFileStates = FileNames
    /\ GlobalFileStates["/a/x.log"].Offset = RecLen
    /\ GlobalFileStates["/b/y.log"].Offset = 0

\* the reader of p is turned away by the per-path gate in this step
TurnedAway(p) == rd'[p]["skip"] = rd[p]["skip"] + 1
\* a reader of p that was turned away returns in this step
SkipReturns(p) == rd'[p]["skip"] = rd[p]["skip"] - 1
\* the reader of p that passed both gates finishes its read in this step
ReadCompletes(p) == rd'[p]["rel"] = rd[p]["rel"] + 1

\* C4: at most one reader per path is past the per-path gate; a reader that
\* arrives meanwhile is turned away and returns, and neither step changes the
\* registry, the sink or the in-flight set.
C4_OneReaderPerPath ==
    /\ [](\A p \in FileNames : rd[p]["body"] <= 1)
    /\ [][\A p \in FileNames :
            /\ TurnedAway(p) => rd[p]["body"] = 1
            /\ (TurnedAway(p) \/ SkipReturns(p)) =>
                 UNCHANGED <<GlobalFileStates, sink, processingMap>>]_vars

C4_Witness ==
    \E p \in FileNames : rd[p]["body"] = 1 /\ rd[p]["skip"] = 1

\* the readers that hold a slot of processingSem
SlotsHeld ==
    LET held(p) == rd[p]["gate"] + rd[p]["body"] + rd[p]["skip"] + rd[p]["rel"]
    IN held("/a/x.log") + held("/b/y.log")

\* C5: the number of readers that hold a semaphore slot never exceeds
\* MaxConcurrentReads.
C5_ConcurrencyCap ==
    /\ SlotsHeld <= MaxConcurrentReads
    /\ processingSem = SlotsHeld

C5_Witness ==
    /\ SlotsHeld = MaxConcurrentReads
    /\ \E p \in FileNames : rd[p]["wait"] > 0

\* the records of recs that lie past the first off bytes
RECURSIVE Unread(_, _)
Unread(recs, off) ==
    IF recs = <<>> \/ off <= 0 THEN recs ELSE Unread(Tail(recs), off - Head(recs))
RECURSIVE SumSeq(_)
SumSeq(q) == IF q = <<>> THEN 0 ELSE Head(q) + SumSeq(Tail(q))
Take(q, n) == SubSeq(q, 1, IF n < Len(q) THEN n ELSE Len(q))

\* C8: a reader that passed both gates leaves the offset advanced by the
\* bytes of the first min(k, MaxReadCount) unread records and has forwarded
\* exactly those records to the sink, in order.
C8_ReadAdvancesOffset ==
    [][\A p \in FileNames :
          (ReadCompletes(p) /\ p \in disk /\ p \in DOMAIN GlobalFileStates) =>
             LET batch == Take(Unread(FileRecords(p), GlobalFileStates[p].Offset),
                               ClampMaxReadCount(ConfigMaxReadCount))
             IN /\ p \in DOMAIN GlobalFileStates'
                /\ GlobalFileStates'[p].Offset =
                       GlobalFileStates[p].Offset + SumSeq(batch)
                /\ sink' = sink \o [i \in 1..Len(batch) |->
                                      [Path |-> p, Bytes |-> batch[i]]]]_vars

(* ------------------------------------------------------------------ *)
(* Lifecycle claims                                                     *)
(* ------------------------------------------------------------------ *)
\* InitWatcher has returned
InitWatcherReturned == mainPc \in {"clock", "running", "failed_closed", "closed"}
\* worker w has sent its initialization result on isSuccess
Signaled(w) == wpc[w] \notin {"none", "init", "send"}

\* C11: InitWatcher has returned nil only when every worker has signaled
\* success; when a worker has signaled a failure InitWatcher has returned an
\* error that a worker signaled, and the cancellation has been signaled.
C11_InitBarrier ==
    InitWatcherReturned =>
        /\ runErr = "nil" => \A w \in Indices : Signaled(w) /\ werr[w] = "nil"
        /\ (\E w \in Indices : Signaled(w) /\ werr[w] # "nil") =>
              /\ cancelled
              /\ \E w \in Indices : Signaled(w) /\ werr[w] # "nil" /\ runErr = werr[w]

C11_Witness ==
    /\ mainPc = "failed_closed"
    /\ \E w \in Indices : Signaled(w) /\ werr[w] = runErr
    /\ \E w \in Indices : ~Signaled(w)

\* C14: whatever sync_interval is configured, the period the ticker is
\* created with lies in 1..60 seconds and creating the ticker does not fail.
C14_TickerPeriod ==
    mainPc = "clock" =>
        /\ ClampSyncInterval(syncInterval) \in 1..DefaultSyncInterval
        /\ ~crashed

\* C15: once Closed has returned and the workers and the ticker have
\* stopped, the snapshot file decodes to the registry as it stands.
C15_SnapshotAtShutdown ==
    (mainPc = "closed" /\ AllStopped /\ ~crashed) =>
        /\ JsonDecodeOk(file)
        /\ JsonDecode(EmptyRegistry, file) = GlobalFileStates

\* C16: every send of a worker on isSuccess happens before InitWatcher
\* closes the channel: no worker sends on the closed channel.
C16_NoSendAfterClose ==
    [][\A w \in Indices :
          (wpc[w] = "send" /\ (wpc'[w] # "send" \/ crashed')) => ~chanClosed]_vars

\* the positions at which a worker reads or writes the registry map: the
\* membership test, the inserts, the delete and the serialization
RegistryAccess == {"write", "write_lock", "write_save", "create_lock", "remove"}

\* C17: no goroutine reads or writes the registry map while another one
\* holds the registry mutex, and no access overlaps the write of another.
C17_RegistryUnderMutex ==
    [][/\ \A w \in Indices :
            (wpc[w] \in RegistryAccess /\ (wpc'[w] # wpc[w] \/ crashed' # crashed))
               => (mutex \in {"free", w} /\ crashed' = crashed)
       /\ (tpc = "save" /\ tpc' # tpc) => mutex = "free"]_vars

\* the reader goroutines in existence: waiting for a slot or holding one
ReaderTasks ==
    SlotsHeld + rd["/a/x.log"]["wait"] + rd["/b/y.log"]["wait"]

\* C18: a WRITE event is turned into a reader task only while a slot of the
\* semaphore is free, so the reader tasks in existence never exceed
\* MaxConcurrentReads.
C18_WriteEventsQueue ==
    /\ [](ReaderTasks <= MaxConcurrentReads)
    /\ [][ReaderTasks' > ReaderTasks => processingSem < MaxConcurrentReads]_vars

\* C19: whenever a watcher worker or the ticker goroutine has terminated,
\* the global cancellation has been signaled.
C19_TerminationCancels ==
    ((\E w \in Indices : wpc[w] = "exited") \/ tpc = "exited") => cancelled

\* a worker left its loop on its own while Closed has not been called
C19_Witness ==
    /\ mainPc = "running"
    /\ \E w \in Indices : wpc[w] = "exited"
    /\ \E w \in Indices : wpc[w] # "exited"
    /\ cancelled

CreateStep(w) == wpc[w] \in {"create", "create_lock"} /\ wpc'[w] # wpc[w]
\* worker w receives an event that is no WRITE, CREATE, REMOVE or RENAME
OtherEventStep(w) ==
    /\ wpc[w] = "select"
    /\ evq[w] # <<>>
    /\ evq'[w] = Tail(evq[w])
    /\ Head(evq[w]).Op \cap {"WRITE", "CREATE", "REMOVE", "RENAME"} = {}

RunFailed == mainPc \in {"failed", "failed_closed"} \/ (mainPc = "closed" /\ runErr # "nil")

\* C23: a watcher worker exists only once the load and the reconciliation,
\* its enumeration of every root and its save included, have succeeded; the
\* ticker exists only once every worker has signaled success; and when the
\* load, the reconciliation or a worker's initialization has failed, Run
\* returns an error and the ticker is never started.
C23_StartupOrdered ==
    /\ (\E w \in Indices : wpc[w] # "none") =>
          /\ ReconcilerRan
          /\ unreadable = {}
          /\ JsonDecodeOk(file)
    /\ tpc # "none" => \A w \in Indices : Signaled(w) /\ werr[w] = "nil"
    /\ runErr # "nil" => (RunFailed /\ tpc = "none")
    /\ (ReconcilerRan /\ unreadable # {}) => (RunFailed /\ tpc = "none")
    /\ (InitWatcherReturned /\ \E w \in Indices : Signaled(w) /\ werr[w] # "nil") =>
          (RunFailed /\ tpc = "none")
====
